---- MODULE Spec2Model ----
(***************************************************************************)
(* A model of the cosine-similarity explorer: the vector parser and the    *)
(* similarity calculator of src/utils/mathUtils.ts, and the VectorChart    *)
(* component, the App component and the AI bridge of                       *)
(* src/components/VectorChart.tsx.                                         *)
(*                                                                         *)
(* JavaScript numbers are modelled as a small binary-free floating format: *)
(* a finite number x is the integer x * Scale (fixed point, results of     *)
(* multiplication, division and square root rounded to the nearest unit),  *)
(* finite magnitudes end at MaxFinite, beyond which a result overflows to  *)
(* +Infinity or -Infinity, and NaN is a value of its own.  Signed zero is  *)
(* not distinguished (no operation of the program divides by a negative    *)
(* zero).                                                                  *)
(***************************************************************************)
EXTENDS Integers, Sequences, FiniteSets, TLC

VARIABLES
    \* calculateCosineSimilarity: arguments, locals, position, return value
    vecA, vecB, pc, i, dotProduct, sumSqA, sumSqB, result,
    \* parseVectorString: argument, position, return value
    input, ppc, parsed,
    \* VectorChart 3D view: rotation state, drag flag, last pointer position
    rotation, isDragging, lastMousePos,
    \* AI bridge: position, operation, credential, concepts, outcome, return
    bpc, bop, apiKey, topics, response, returned,
    \* App: the form's state (with vecA, vecB and result above), the requests
    \* in flight, the timers pending, the last handler run
    inputA, inputB, conceptA, conceptB, isGenerating, aiReasoning, error,
    explanation, isExplaining, awaitingGenerate, awaitingExplain, clickTimers,
    mountTimer, interacted, event,
    \* VectorChart: what the last render returned
    view

calcVars == <<vecA, vecB, pc, i, dotProduct, sumSqA, sumSqB, result>>
parseVars == <<input, ppc, parsed>>
rotVars == <<rotation, isDragging, lastMousePos>>
bridgeVars == <<bpc, bop, apiKey, topics, response, returned>>
appVars ==
    <<inputA, inputB, conceptA, conceptB, isGenerating, aiReasoning, error,
      explanation, isExplaining, awaitingGenerate, awaitingExplain, clickTimers,
      mountTimer, interacted, event>>
chartVars == <<view>>
vars == <<calcVars, parseVars, rotVars, bridgeVars, appVars, chartVars>>

(***************************************************************************)
(* Bounds of the model.                                                    *)
(***************************************************************************)
\* units per 1.0 of the fixed-point number format
Scale == 10
\* largest finite magnitude of the number format, in units
MaxFinite == 5000
\* longest vector handed to the calculator
MaxLen == 2

(***************************************************************************)
(* The number format.                                                      *)
(***************************************************************************)
PosInf == MaxFinite + 1
NegInf == 0 - PosInf
NaN == MaxFinite + 2

IsFinite(x) == (0 - MaxFinite) <= x /\ x <= MaxFinite

Abs(x) == IF x < 0 THEN 0 - x ELSE x

Sign(x) == IF x > 0 THEN 1 ELSE IF x < 0 THEN 0 - 1 ELSE 0

\* n / d for d > 0, rounded to the nearest integer (ties away from zero)
RoundDiv(n, d) ==
    IF n >= 0 THEN (2 * n + d) \div (2 * d)
    ELSE 0 - ((2 * (0 - n) + d) \div (2 * d))

\* overflow of a finite computation to an infinity
Sat(x) == IF x > MaxFinite THEN PosInf ELSE IF x < 0 - MaxFinite THEN NegInf ELSE x

\* a + b
FAdd(a, b) ==
    IF a = NaN \/ b = NaN THEN NaN
    ELSE IF a = PosInf THEN (IF b = NegInf THEN NaN ELSE PosInf)
    ELSE IF a = NegInf THEN (IF b = PosInf THEN NaN ELSE NegInf)
    ELSE IF b = PosInf \/ b = NegInf THEN b
    ELSE Sat(a + b)

\* a * b
FMul(a, b) ==
    IF a = NaN \/ b = NaN THEN NaN
    ELSE IF ~IsFinite(a) \/ ~IsFinite(b)
         THEN (IF a = 0 \/ b = 0 THEN NaN
               ELSE IF Sign(a) * Sign(b) > 0 THEN PosInf ELSE NegInf)
    ELSE Sat(RoundDiv(a * b, Scale))

\* a / b
FDiv(a, b) ==
    IF a = NaN \/ b = NaN THEN NaN
    ELSE IF ~IsFinite(a) /\ ~IsFinite(b) THEN NaN
    ELSE IF b = 0 THEN (IF a = 0 THEN NaN ELSE IF a > 0 THEN PosInf ELSE NegInf)
    ELSE IF ~IsFinite(a) THEN (IF Sign(a) * Sign(b) > 0 THEN PosInf ELSE NegInf)
    ELSE IF ~IsFinite(b) THEN 0
    ELSE Sat(RoundDiv(a * Scale * Sign(b), Abs(b)))

RECURSIVE SqrtFloor(_, _, _)
\* the largest r in lo..hi with r * r <= n
SqrtFloor(n, lo, hi) ==
    IF lo >= hi THEN lo
    ELSE LET mid == (lo + hi + 1) \div 2
         IN  IF mid * mid <= n THEN SqrtFloor(n, mid, hi)
             ELSE SqrtFloor(n, lo, mid - 1)

\* Math.sqrt(a)
MathSqrt(a) ==
    IF a = NaN \/ a < 0 THEN NaN
    ELSE IF a = PosInf THEN PosInf
    ELSE LET n == a * Scale
             r == SqrtFloor(n, 0, n)
         IN  IF n - r * r > r THEN r + 1 ELSE r

\* Math.min(a, b)
MathMin(a, b) == IF a = NaN \/ b = NaN THEN NaN ELSE IF a < b THEN a ELSE b

\* Math.max(a, b)
MathMax(a, b) == IF a = NaN \/ b = NaN THEN NaN ELSE IF a > b THEN a ELSE b

\* acos in whole degrees at -1.0, -0.9, ..., 0.9, 1.0
AcosTable ==
    <<180, 154, 143, 134, 127, 120, 114, 107, 102, 96, 90,
      84, 78, 73, 66, 60, 53, 46, 37, 26, 0>>

\* Math.acos(c) * (180 / Math.PI): NaN outside [-1, 1], else the table value,
\* linearly interpolated between two neighbouring tenths
AcosDegrees(c) ==
    IF c = NaN \/ c < 0 - Scale \/ c > Scale THEN NaN
    ELSE LET pos == (c + Scale) * ((Len(AcosTable) - 1) \div 2)
             k == pos \div Scale
             r == pos % Scale
         IN  IF r = 0 THEN AcosTable[k + 1] * Scale
             ELSE AcosTable[k + 1] * (Scale - r) + AcosTable[k + 2] * r

(***************************************************************************)
(* calculateCosineSimilarity (src/utils/mathUtils.ts).                     *)
(***************************************************************************)
\* the "no result" value
Null == [null |-> TRUE]

\* the numbers a vector handed to the calculator may hold: -1, 0, 0.1 (whose
\* square underflows to 0), 1, 2, 3, 4, the largest finite number, +Infinity
\* (parseFloat("Infinity"))
Numbers ==
    {0 - Scale, 0, 1, Scale, 2 * Scale, 3 * Scale, 4 * Scale, MaxFinite, PosInf}

\* the vectors of at most n numbers
Vectors(n) == UNION {[1..k -> Numbers] : k \in 0..n}

\* v[k] of a JavaScript array, k counted from 0: undefined past the end, and
\* undefined in arithmetic is NaN
At(v, k) == IF k < Len(v) THEN v[k + 1] ELSE NaN

\* a faulty variant of InvalidInput: the lengths are not compared
InvalidInputNoLengthCheck(a, b) == Len(a) = 0 \/ Len(b) = 0

\* line 11: the guard that returns null
InvalidInput(a, b) == Len(a) = 0 \/ Len(b) = 0 \/ Len(a) # Len(b)

\* a faulty variant of DotTerm: vecA[i] multiplied by itself
DotTermOfA(a, b, k) == FMul(At(a, k), At(a, k))

\* line 20: the term added to dotProduct
DotTerm(a, b, k) == FMul(At(a, k), At(b, k))

\* lines 21, 22: the term added to sumSqA, sumSqB
SquareTerm(v, k) == FMul(At(v, k), At(v, k))

\* a faulty variant of ZeroMagnitude: && in place of ||
ZeroMagnitudeBoth(mA, mB) == mA = 0 /\ mB = 0

\* line 29: the guard against a division by zero
ZeroMagnitude(mA, mB) == mA = 0 \/ mB = 0

\* line 43: Math.max(-1, Math.min(1, cosineSimilarity))
Clamp(c) == MathMax(0 - Scale, MathMin(Scale, c))

\* lines 25-54: the value returned once the loop has ended
Finish(a, dot, sqA, sqB) ==
    LET magnitudeA == MathSqrt(sqA)
        magnitudeB == MathSqrt(sqB)
    IN  IF ZeroMagnitude(magnitudeA, magnitudeB)
        THEN [dotProduct |-> dot, magnitudeA |-> magnitudeA,
              magnitudeB |-> magnitudeB, cosineSimilarity |-> 0,
              angleDegrees |-> 0, dimensions |-> Len(a)]
        ELSE LET cosineSimilarity == FDiv(dot, FMul(magnitudeA, magnitudeB))
                 clampedSimilarity == Clamp(cosineSimilarity)
             IN  [dotProduct |-> dot, magnitudeA |-> magnitudeA,
                  magnitudeB |-> magnitudeB,
                  cosineSimilarity |-> clampedSimilarity,
                  angleDegrees |-> AcosDegrees(clampedSimilarity),
                  dimensions |-> Len(a)]

\* lines 11-17: the guard, then the three accumulators set to 0
CalcEnter ==
    /\ pc = "start"
    /\ IF InvalidInput(vecA, vecB)
       THEN /\ pc' = "done"
            /\ result' = Null
       ELSE /\ pc' = "loop"
            /\ UNCHANGED result
    /\ i' = 0
    /\ dotProduct' = 0
    /\ sumSqA' = 0
    /\ sumSqB' = 0
    /\ UNCHANGED <<vecA, vecB>>
    /\ UNCHANGED <<parseVars, rotVars, bridgeVars, appVars, chartVars>>

\* lines 19-23: one iteration of the loop
CalcLoopStep ==
    /\ pc = "loop"
    /\ i < Len(vecA)
    /\ dotProduct' = FAdd(dotProduct, DotTerm(vecA, vecB, i))
    /\ sumSqA' = FAdd(sumSqA, SquareTerm(vecA, i))
    /\ sumSqB' = FAdd(sumSqB, SquareTerm(vecB, i))
    /\ i' = i + 1
    /\ UNCHANGED <<vecA, vecB, pc, result>>
    /\ UNCHANGED <<parseVars, rotVars, bridgeVars, appVars, chartVars>>

\* lines 25-54: the loop has ended, the result is built and returned
CalcReturn ==
    /\ pc = "loop"
    /\ ~(i < Len(vecA))
    /\ result' = Finish(vecA, dotProduct, sumSqA, sumSqB)
    /\ pc' = "done"
    /\ UNCHANGED <<vecA, vecB, i, dotProduct, sumSqA, sumSqB>>
    /\ UNCHANGED <<parseVars, rotVars, bridgeVars, appVars, chartVars>>

CalcNext == CalcEnter \/ CalcLoopStep \/ CalcReturn

(***************************************************************************)
(* parseVectorString (src/utils/mathUtils.ts).  A string is a sequence of  *)
(* one-character strings.                                                  *)
(***************************************************************************)
\* longest input string of the parser
MaxStr == 4

\* the characters of an input string: digits, a sign, a decimal point, the two
\* separators, and a letter
Chars == {"1", "2", "-", ".", ",", " ", "a"}

\* the strings of at most n characters
Strings(n) == UNION {[1..k -> Chars] : k \in 0..n}

\* a faulty variant of IsSeparator: whitespace does not separate
IsSeparatorCommaOnly(c) == c = ","

\* the class [\s,] of the split pattern
IsSeparator(c) == c = " " \/ c = ","

IsDigit(c) == c \in {"0", "1", "2", "3", "4", "5", "6", "7", "8", "9"}

DigitValue(c) ==
    CASE c = "0" -> 0 [] c = "1" -> 1 [] c = "2" -> 2 [] c = "3" -> 3
      [] c = "4" -> 4 [] c = "5" -> 5 [] c = "6" -> 6 [] c = "7" -> 7
      [] c = "8" -> 8 [] c = "9" -> 9

RECURSIVE SplitFrom(_, _, _, _, _)
\* input.split(/[\s,]+/) from position k on: tok is the token being read, out
\* the tokens already cut, inRun whether the last character was a separator
SplitFrom(s, k, tok, out, inRun) ==
    IF k > Len(s) THEN Append(out, tok)
    ELSE IF IsSeparator(s[k])
         THEN (IF inRun THEN SplitFrom(s, k + 1, tok, out, TRUE)
               ELSE SplitFrom(s, k + 1, <<>>, Append(out, tok), TRUE))
    ELSE SplitFrom(s, k + 1, Append(tok, s[k]), out, FALSE)

\* line 5: input.split(/[\s,]+/); the empty string splits into one empty token
Split(s) == SplitFrom(s, 1, <<>>, <<>>, FALSE)

RECURSIVE Trim(_)
\* line 6: s.trim()
Trim(t) ==
    IF t = <<>> THEN t
    ELSE IF t[1] = " " THEN Trim(Tail(t))
    ELSE IF t[Len(t)] = " " THEN Trim(SubSeq(t, 1, Len(t) - 1))
    ELSE t

RECURSIVE DigitRun(_, _)
\* the number of digits of t from position k on, up to the first non-digit
DigitRun(t, k) ==
    IF k <= Len(t) /\ IsDigit(t[k]) THEN 1 + DigitRun(t, k + 1) ELSE 0

RECURSIVE DigitsValue(_, _, _)
\* the integer written by the n digits of t from position k on
DigitsValue(t, k, n) ==
    IF n = 0 THEN 0
    ELSE 10 * DigitsValue(t, k, n - 1) + DigitValue(t[k + n - 1])

RECURSIVE Pow10(_)
Pow10(n) == IF n = 0 THEN 1 ELSE 10 * Pow10(n - 1)

\* the word a non-finite number is written with
InfinityWord == <<"I", "n", "f", "i", "n", "i", "t", "y">>

\* whether t holds the word w from position p on
HasWord(t, p, w) ==
    Len(t) >= p + Len(w) - 1 /\ SubSeq(t, p, p + Len(w) - 1) = w

\* a faulty variant of ParseFloat: the whole part only, as parseInt reads it
ParseWholePart(t) ==
    LET negative == t # <<>> /\ t[1] = "-"
        p == IF t # <<>> /\ t[1] \in {"-", "+"} THEN 2 ELSE 1
        nInt == DigitRun(t, p)
        magnitude == Sat(DigitsValue(t, p, nInt) * Scale)
    IN  IF nInt = 0 THEN NaN
        ELSE IF negative THEN 0 - magnitude
        ELSE magnitude

\* line 6: parseFloat(t): the number written by the longest prefix of t that
\* is a decimal literal (a sign, then Infinity or digits, a point, digits),
\* NaN when no prefix is one.  An exponent part is not read: no number of the
\* format is written with one
ParseFloat(t) ==
    LET negative == t # <<>> /\ t[1] = "-"
        p == IF t # <<>> /\ t[1] \in {"-", "+"} THEN 2 ELSE 1
        nInt == DigitRun(t, p)
        hasPoint == p + nInt <= Len(t) /\ t[p + nInt] = "."
        nFrac == IF hasPoint THEN DigitRun(t, p + nInt + 1) ELSE 0
        whole == DigitsValue(t, p, nInt)
        frac == DigitsValue(t, p + nInt + 1, nFrac)
        magnitude ==
            IF HasWord(t, p, InfinityWord) THEN PosInf
            ELSE Sat(whole * Scale + RoundDiv(frac * Scale, Pow10(nFrac)))
    IN  IF nInt = 0 /\ nFrac = 0 /\ ~HasWord(t, p, InfinityWord) THEN NaN
        ELSE IF negative THEN 0 - magnitude
        ELSE magnitude

\* a faulty variant of NotNaN: the filter keeps every number
KeepAll(n) == TRUE

\* line 7: the test of the filter, !isNaN(n)
NotNaN(n) == n # NaN

\* lines 4-7: split, map, filter
ParseVectorString(s) ==
    LET tokens == Split(s)
        numbers == [k \in 1..Len(tokens) |-> ParseFloat(Trim(tokens[k]))]
    IN  SelectSeq(numbers, NotNaN)

\* the call parseVectorString(input) (src/components/VectorChart.tsx:370)
ParseCall ==
    /\ ppc = "start"
    /\ parsed' = ParseVectorString(input)
    /\ ppc' = "done"
    /\ UNCHANGED input
    /\ UNCHANGED <<calcVars, rotVars, bridgeVars, appVars, chartVars>>

ParseNext == ParseCall

(***************************************************************************)
(* The 3D view of VectorChart: rotation by dragging.  Angles are kept in   *)
(* units of 1 / RotUnits degree, so that a pointer displacement times 0.5  *)
(* is an integer.                                                          *)
(***************************************************************************)
\* units per degree: one pixel of displacement turns by 0.5 degree
RotUnits == 2
\* the initial rotation, in degrees
InitialPitch == -20
InitialYaw == 45
\* the pitch clamp, in degrees
MaxPitch == 90
\* pointer coordinates are 0, CoordStep, ..., MaxCoord * CoordStep
CoordStep == 60
MaxCoord == 3
\* the yaw the model lets a drag reach, in degrees
MaxYaw == 400

Coords == {k * CoordStep : k \in 0..MaxCoord}

\* a faulty variant of ClampPitch: the pitch is not clamped
NoClamp(p) == p

\* line 126: Math.max(-90, Math.min(90, p))
ClampPitch(p) ==
    IF p > MaxPitch * RotUnits THEN MaxPitch * RotUnits
    ELSE IF p < 0 - MaxPitch * RotUnits THEN 0 - MaxPitch * RotUnits
    ELSE p

\* lines 115-118
handleMouseDown(clientX, clientY) ==
    /\ isDragging' = TRUE
    /\ lastMousePos' = [x |-> clientX, y |-> clientY]
    /\ UNCHANGED rotation

\* a faulty variant of handleMouseMove: isDragging is not looked at
handleMouseMoveAlways(clientX, clientY) ==
    LET deltaX == clientX - lastMousePos.x
        deltaY == clientY - lastMousePos.y
    IN  /\ Abs(rotation.y + deltaX) <= MaxYaw * RotUnits
        /\ rotation' = [x |-> ClampPitch(rotation.x + deltaY),
                        y |-> rotation.y + deltaX]
        /\ lastMousePos' = [x |-> clientX, y |-> clientY]
        /\ UNCHANGED isDragging

\* lines 120-131
handleMouseMove(clientX, clientY) ==
    IF ~isDragging THEN UNCHANGED rotVars
    ELSE LET deltaX == clientX - lastMousePos.x
             deltaY == clientY - lastMousePos.y
         IN  /\ Abs(rotation.y + deltaX) <= MaxYaw * RotUnits
             /\ rotation' = [x |-> ClampPitch(rotation.x + deltaY),
                             y |-> rotation.y + deltaX]
             /\ lastMousePos' = [x |-> clientX, y |-> clientY]
             /\ UNCHANGED isDragging

\* lines 133-135
handleMouseUp ==
    /\ isDragging' = FALSE
    /\ UNCHANGED <<rotation, lastMousePos>>

\* lines 194-197: the events of the 3D container
MouseDown ==
    /\ \E clientX \in Coords, clientY \in Coords : handleMouseDown(clientX, clientY)
    /\ UNCHANGED <<calcVars, parseVars, bridgeVars, appVars, chartVars>>

MouseMove ==
    /\ \E clientX \in Coords, clientY \in Coords : handleMouseMove(clientX, clientY)
    /\ UNCHANGED <<calcVars, parseVars, bridgeVars, appVars, chartVars>>

MouseUp ==
    /\ handleMouseUp
    /\ UNCHANGED <<calcVars, parseVars, bridgeVars, appVars, chartVars>>

MouseLeave ==
    /\ handleMouseUp
    /\ UNCHANGED <<calcVars, parseVars, bridgeVars, appVars, chartVars>>

RotNext == MouseDown \/ MouseMove \/ MouseUp \/ MouseLeave

(***************************************************************************)
(* The AI bridge (src/components/VectorChart.tsx, lines 773-875).  A JSON  *)
(* value is a record with a kind; a response text is given by its          *)
(* characters' emptiness and by what JSON.parse makes of it.               *)
(***************************************************************************)
Undefined == [kind |-> "undefined"]
JNull == [kind |-> "null"]
JString == [kind |-> "string"]
JNumber(n) == [kind |-> "number", v |-> n]
JArray(items) == [kind |-> "array", items |-> items]
JObject(a, b, r) == [kind |-> "object", vectorA |-> a, vectorB |-> b, reasoning |-> r]

\* the arrays of numbers a response may hold
NumberArrays == UNION {[1..k -> {JNumber(0), JNumber(Scale)}] : k \in 0..MaxLen}

\* what a property of the response object may hold: nothing, a string, an
\* array of numbers, an array with a non-number in it
FieldValues ==
    {Undefined, JString, JArray(<<JNumber(Scale), JString>>)}
        \cup {JArray(a) : a \in NumberArrays}

\* response.text: absent, or a string with its characters (raw) and the
\* outcome of JSON.parse on it (a syntax error, or a value)
NoText == [kind |-> "undefined"]
BadText(raw) == [kind |-> "text", raw |-> raw, parses |-> FALSE]
JsonText(raw, value) == [kind |-> "text", raw |-> raw, parses |-> TRUE, value |-> value]

Texts ==
    {NoText, BadText(""), BadText("It depends"), JsonText("null", JNull),
     JsonText("5", JNumber(5 * Scale))}
        \cup {JsonText("{..}", JObject(a, b, r)) :
                a \in FieldValues, b \in FieldValues, r \in {Undefined, JString}}

\* how ai.models.generateContent settles: rejected (network, credential
\* refused), or fulfilled with a response
Outcomes == {[kind |-> "rejected"]} \cup {[kind |-> "fulfilled", text |-> t] : t \in Texts}

Concepts == {"cat", "dog"}

\* a falsy response.text: undefined or the empty string
Falsy(text) == text.kind = "undefined" \/ text.raw = ""

\* data.<field> of a parsed value that is not null: a property of an object,
\* undefined of a number, a string or an array
Property(data, field) ==
    IF data.kind = "object" THEN data[field] ELSE Undefined

\* lines 796-843: the value generateVectorsFromConcepts resolves to once
\* generateContent has settled
GenerateResult(outcome, topicA, topicB) ==
    IF outcome.kind = "rejected" THEN Null
    ELSE IF Falsy(outcome.text) THEN Null
    ELSE IF ~outcome.text.parses THEN Null
    ELSE IF outcome.text.value.kind = "null" THEN Null
    ELSE [vectorA |-> Property(outcome.text.value, "vectorA"),
          vectorB |-> Property(outcome.text.value, "vectorB"),
          topicA |-> topicA,
          topicB |-> topicB,
          reasoning |-> Property(outcome.text.value, "reasoning")]

\* lines 854-874: the string explainSimilarityResult resolves to once
\* generateContent has settled
ExplainResult(outcome) ==
    IF outcome.kind = "rejected" THEN "Error generating explanation."
    ELSE IF Falsy(outcome.text) THEN "No explanation available."
    ELSE outcome.text.raw

\* lines 788-794: the call; without a credential it resolves to null at once
GenerateCall ==
    /\ bpc \in {"idle", "resolved"}
    /\ bop' = "generate"
    /\ \E a \in Concepts, b \in Concepts : topics' = <<a, b>>
    /\ response' = [kind |-> "none"]
    /\ IF ~apiKey
       THEN bpc' = "resolved" /\ returned' = Null
       ELSE bpc' = "awaiting" /\ returned' = Undefined
    /\ UNCHANGED apiKey
    /\ UNCHANGED <<calcVars, parseVars, rotVars, appVars, chartVars>>

\* lines 801-843: generateContent settles and the function resolves
GenerateSettle ==
    /\ bpc = "awaiting"
    /\ bop = "generate"
    /\ \E outcome \in Outcomes :
          /\ response' = outcome
          /\ returned' = GenerateResult(outcome, topics[1], topics[2])
    /\ bpc' = "resolved"
    /\ UNCHANGED <<bop, apiKey, topics>>
    /\ UNCHANGED <<calcVars, parseVars, rotVars, appVars, chartVars>>

\* lines 846-852: the call; without a credential it resolves to a default text
ExplainCall ==
    /\ bpc \in {"idle", "resolved"}
    /\ bop' = "explain"
    /\ response' = [kind |-> "none"]
    /\ IF ~apiKey
       THEN /\ bpc' = "resolved"
            /\ returned' = [kind |-> "string",
                            raw |-> "Unable to connect to AI for explanation."]
       ELSE bpc' = "awaiting" /\ returned' = Undefined
    /\ UNCHANGED <<apiKey, topics>>
    /\ UNCHANGED <<calcVars, parseVars, rotVars, appVars, chartVars>>

\* lines 865-874: generateContent settles and the function resolves
ExplainSettle ==
    /\ bpc = "awaiting"
    /\ bop = "explain"
    /\ \E outcome \in Outcomes :
          /\ response' = outcome
          /\ returned' = [kind |-> "string", raw |-> ExplainResult(outcome)]
    /\ bpc' = "resolved"
    /\ UNCHANGED <<bop, apiKey, topics>>
    /\ UNCHANGED <<calcVars, parseVars, rotVars, appVars, chartVars>>

BridgeNext == GenerateCall \/ GenerateSettle \/ ExplainCall \/ ExplainSettle

(***************************************************************************)
(* App (src/components/VectorChart.tsx, lines 341-487): the form, its      *)
(* handlers and its two effects.  vecA, vecB and result are App's state of *)
(* these names.  A handler and the render and effects that follow it are   *)
(* one step; a handler suspended in an await resumes in a later step.  The *)
(* variable event records what the last step was: an edit of the form, or  *)
(* a handler of a button or a timer with what it was given; the variable   *)
(* interacted records whether the user has done anything since the mount.  *)
(***************************************************************************)
\* most calc-btn click timers pending at once
MaxTimers == 1

\* lines 345, 346: the initial input strings "2, 1" and "1, 3"
DefaultInputA == <<"2", ",", " ", "1">>
DefaultInputB == <<"1", ",", " ", "3">>

\* what the user types into a vector field: "1 "
TypedTexts == {<<"1", " ">>}

\* what the user types into a concept field
ConceptTexts == {"", "cat"}

\* no request in flight
NoRequest == [pending |-> FALSE]

\* the error messages of lines 382, 387, 410, 426
MismatchError(a, b) ==
    [message |-> "Dimension mismatch", dimsA |-> Len(a), dimsB |-> Len(b)]
EmptyError == [message |-> "Vectors cannot be empty."]
ConceptsError == [message |-> "Please enter two concepts."]
GenerateError ==
    [message |-> "Failed to generate vectors. Check API Key or try again."]

RECURSIVE Loop(_, _, _, _, _, _)
\* mathUtils.ts lines 19-54: the loop from index k on, then the result
Loop(a, b, k, dot, sqA, sqB) ==
    IF k < Len(a)
    THEN Loop(a, b, k + 1, FAdd(dot, DotTerm(a, b, k)),
              FAdd(sqA, SquareTerm(a, k)), FAdd(sqB, SquareTerm(b, k)))
    ELSE Finish(a, dot, sqA, sqB)

\* mathUtils.ts lines 10-55: the value of a call
calculateCosineSimilarity(a, b) ==
    IF InvalidInput(a, b) THEN Null ELSE Loop(a, b, 0, 0, 0, 0)

DigitChar(d) ==
    CASE d = 0 -> "0" [] d = 1 -> "1" [] d = 2 -> "2" [] d = 3 -> "3"
      [] d = 4 -> "4" [] d = 5 -> "5" [] d = 6 -> "6" [] d = 7 -> "7"
      [] d = 8 -> "8" [] d = 9 -> "9"

RECURSIVE DigitsOf(_)
\* the decimal digits of a natural number
DigitsOf(n) ==
    IF n < 10 THEN <<DigitChar(n)>>
    ELSE Append(DigitsOf(n \div 10), DigitChar(n % 10))

RECURSIVE PaddedDigits(_, _)
\* the k last decimal digits of a natural number
PaddedDigits(n, k) ==
    IF k = 0 THEN <<>>
    ELSE Append(PaddedDigits(n \div 10, k - 1), DigitChar(n % 10))

RECURSIVE FractionDigits(_, _)
\* the least number of decimals, from k on, that name the fraction of u units
\* and no other number of the format
FractionDigits(u, k) ==
    LET f == RoundDiv(u * Pow10(k), Scale)
    IN  IF f < Pow10(k) /\ RoundDiv(f * Scale, Pow10(k)) = u THEN k
        ELSE FractionDigits(u, k + 1)

\* String(n) of a number: the shortest decimal that reads back as n
NumberToString(n) ==
    IF n = NaN THEN <<"N", "a", "N">>
    ELSE IF n = PosInf THEN <<"I", "n", "f", "i", "n", "i", "t", "y">>
    ELSE IF n = NegInf THEN <<"-", "I", "n", "f", "i", "n", "i", "t", "y">>
    ELSE LET whole == Abs(n) \div Scale
             u == Abs(n) % Scale
             k == FractionDigits(u, 1)
             sign == IF n < 0 THEN <<"-">> ELSE <<>>
         IN  IF u = 0 THEN sign \o DigitsOf(whole)
             ELSE sign \o DigitsOf(whole) \o <<".">>
                      \o PaddedDigits(RoundDiv(u * Pow10(k), Scale), k)

\* String(item) of an array element: a number as above, a string as itself
\* (the letter a stands for its text), null and undefined as nothing
ElementToString(item) ==
    IF item.kind = "number" THEN NumberToString(item.v)
    ELSE IF item.kind = "string" THEN <<"a">>
    ELSE <<>>

RECURSIVE Join(_)
\* lines 420, 421: items.join(', ')
Join(items) ==
    IF items = <<>> THEN <<>>
    ELSE IF Len(items) = 1 THEN ElementToString(items[1])
    ELSE ElementToString(items[1]) \o <<",", " ">> \o Join(Tail(items))

RECURSIVE SpaceRun(_, _)
\* the number of whitespace characters of s from position k on
SpaceRun(s, k) == IF k <= Len(s) /\ s[k] = " " THEN 1 + SpaceRun(s, k + 1) ELSE 0

RECURSIVE CommaBetweenDigits(_, _)
\* line 479: value.replace(/(\d)\s+(?=\d)/g, '$1, ') from position k on
CommaBetweenDigits(s, k) ==
    IF k > Len(s) THEN <<>>
    ELSE LET n == SpaceRun(s, k + 1)
         IN  IF IsDigit(s[k]) /\ n > 0 /\ k + n < Len(s) /\ IsDigit(s[k + n + 1])
             THEN <<s[k], ",", " ">> \o CommaBetweenDigits(s, k + n + 1)
             ELSE <<s[k]>> \o CommaBetweenDigits(s, k + 1)

\* lines 482-484: a space typed after a digit becomes a comma and a space
CommaForTrailingSpace(s) ==
    IF Len(s) >= 2 /\ s[Len(s)] = " " /\ IsDigit(s[Len(s) - 1])
    THEN SubSeq(s, 1, Len(s) - 1) \o <<",", " ">>
    ELSE s

\* lines 475-486: the string handleVectorInputChange stores for a typed value
TypedValue(value) == CommaForTrailingSpace(CommaBetweenDigits(value, 1))

\* lines 368-378: the render after the handlers have set inputA to a, inputB to
\* b and error to e; the effect runs when one of the strings has changed
ParseEffect(a, b, e) ==
    /\ inputA' = a
    /\ inputB' = b
    /\ IF a # inputA \/ b # inputB
       THEN /\ vecA' = ParseVectorString(a)
            /\ vecB' = ParseVectorString(b)
            /\ error' = Null
       ELSE /\ UNCHANGED <<vecA, vecB>>
            /\ error' = e

\* a faulty variant of DimensionsDiffer: the lengths are not compared
DimensionsNeverDiffer(a, b) == FALSE

\* line 381
DimensionsDiffer(a, b) == Len(a) # Len(b)

\* a faulty variant of IsEmpty: the empty vector is let through
NeverEmpty(a) == FALSE

\* line 386
IsEmpty(a) == Len(a) = 0

\* lines 380-396: handleCalculate of a render whose vectors are a and b; by
\* names what invoked it
handleCalculate(a, b, by) ==
    IF DimensionsDiffer(a, b)
    THEN /\ error' = MismatchError(a, b)
         /\ result' = Null
         /\ UNCHANGED explanation
         /\ event' = [name |-> "handleCalculate", by |-> by, vecA |-> a,
                      vecB |-> b, called |-> FALSE]
    ELSE IF IsEmpty(a)
    THEN /\ error' = EmptyError
         /\ result' = Null
         /\ UNCHANGED explanation
         /\ event' = [name |-> "handleCalculate", by |-> by, vecA |-> a,
                      vecB |-> b, called |-> FALSE]
    ELSE /\ result' = calculateCosineSimilarity(a, b)
         /\ error' = Null
         /\ explanation' = Null
         /\ event' = [name |-> "handleCalculate", by |-> by, vecA |-> a,
                      vecB |-> b, called |-> TRUE]

\* lines 399-405: the timer of the mount effect fires.  The effect ran after
\* the first render only, so the handleCalculate it calls is the one of the
\* first render, whose vecA and vecB are the initial [] of lines 356, 357
MountTimer ==
    /\ mountTimer
    /\ mountTimer' = FALSE
    /\ handleCalculate(<<>>, <<>>, "mount")
    /\ UNCHANGED <<vecA, vecB, inputA, inputB, conceptA, conceptB, isGenerating,
                   aiReasoning, isExplaining, awaitingGenerate, awaitingExplain,
                   clickTimers, interacted>>
    /\ UNCHANGED <<pc, i, dotProduct, sumSqA, sumSqB>>
    /\ UNCHANGED <<parseVars, rotVars, bridgeVars, chartVars>>

\* line 669: the user clicks calc-btn
CalcClick ==
    /\ handleCalculate(vecA, vecB, "user")
    /\ interacted' = TRUE
    /\ UNCHANGED <<vecA, vecB, inputA, inputB, conceptA, conceptB, isGenerating,
                   aiReasoning, isExplaining, awaitingGenerate, awaitingExplain,
                   clickTimers, mountTimer>>
    /\ UNCHANGED <<pc, i, dotProduct, sumSqA, sumSqB>>
    /\ UNCHANGED <<parseVars, rotVars, bridgeVars, chartVars>>

\* line 424: a timer clicks calc-btn
CalcTimer ==
    /\ clickTimers > 0
    /\ clickTimers' = clickTimers - 1
    /\ handleCalculate(vecA, vecB, "timer")
    /\ UNCHANGED <<vecA, vecB, inputA, inputB, conceptA, conceptB, isGenerating,
                   aiReasoning, isExplaining, awaitingGenerate, awaitingExplain,
                   mountTimer, interacted>>
    /\ UNCHANGED <<pc, i, dotProduct, sumSqA, sumSqB>>
    /\ UNCHANGED <<parseVars, rotVars, bridgeVars, chartVars>>

\* line 624: the user edits the field of vector A
InputAChange ==
    /\ \E value \in TypedTexts : ParseEffect(TypedValue(value), inputB, error)
    /\ interacted' = TRUE
    /\ event' = [name |-> "edit"]
    /\ UNCHANGED <<result, explanation, conceptA, conceptB, isGenerating,
                   aiReasoning, isExplaining, awaitingGenerate, awaitingExplain,
                   clickTimers, mountTimer>>
    /\ UNCHANGED <<pc, i, dotProduct, sumSqA, sumSqB>>
    /\ UNCHANGED <<parseVars, rotVars, bridgeVars, chartVars>>

\* line 642: the user edits the field of vector B
InputBChange ==
    /\ \E value \in TypedTexts : ParseEffect(inputA, TypedValue(value), error)
    /\ interacted' = TRUE
    /\ event' = [name |-> "edit"]
    /\ UNCHANGED <<result, explanation, conceptA, conceptB, isGenerating,
                   aiReasoning, isExplaining, awaitingGenerate, awaitingExplain,
                   clickTimers, mountTimer>>
    /\ UNCHANGED <<pc, i, dotProduct, sumSqA, sumSqB>>
    /\ UNCHANGED <<parseVars, rotVars, bridgeVars, chartVars>>

\* lines 547, 557: the user edits a concept field
ConceptChange ==
    /\ \E a \in ConceptTexts, b \in ConceptTexts :
          /\ (a = conceptA) # (b = conceptB)
          /\ conceptA' = a
          /\ conceptB' = b
    /\ interacted' = TRUE
    /\ event' = [name |-> "edit"]
    /\ UNCHANGED <<vecA, vecB, result, inputA, inputB, isGenerating,
                   aiReasoning, error, explanation, isExplaining,
                   awaitingGenerate, awaitingExplain, clickTimers, mountTimer>>
    /\ UNCHANGED <<pc, i, dotProduct, sumSqA, sumSqB>>
    /\ UNCHANGED <<parseVars, rotVars, bridgeVars, chartVars>>

\* lines 460-469: the user clicks the clear button
Clear ==
    /\ ParseEffect(<<>>, <<>>, Null)
    /\ conceptA' = ""
    /\ conceptB' = ""
    /\ result' = Null
    /\ explanation' = Null
    /\ aiReasoning' = Undefined
    /\ interacted' = TRUE
    /\ event' = [name |-> "edit"]
    /\ UNCHANGED <<isGenerating, isExplaining, awaitingGenerate,
                   awaitingExplain, clickTimers, mountTimer>>
    /\ UNCHANGED <<pc, i, dotProduct, sumSqA, sumSqB>>
    /\ UNCHANGED <<parseVars, rotVars, bridgeVars, chartVars>>

\* what a property of the response object holds in the App's runs: nothing,
\* or an array of numbers
AppFieldValues == {Undefined, JArray(<<JNumber(Scale), JNumber(0)>>)}

\* how generateContent settles in the App's runs
AppOutcomes ==
    {[kind |-> "rejected"], [kind |-> "fulfilled", text |-> NoText],
     [kind |-> "fulfilled", text |-> BadText("It depends")]}
        \cup {[kind |-> "fulfilled",
               text |-> JsonText("{..}", JObject(a, b, JString))] :
                a \in AppFieldValues, b \in AppFieldValues}

\* how generateContent settles for explainSimilarityResult in the App's runs
ExplainOutcomes ==
    {[kind |-> "rejected"], [kind |-> "fulfilled", text |-> BadText("It depends")]}

\* lines 408-417: the user clicks "Generate Vectors" (disabled while
\* isGenerating, line 590).  Without a credential the bridge resolves to null
\* with no request made, and the handler runs on to its end in the same task
GenerateClick ==
    /\ ~isGenerating
    /\ interacted' = TRUE
    /\ IF conceptA = "" \/ conceptB = ""
       THEN /\ error' = ConceptsError
            /\ event' = [name |-> "handleGenerateVectors", phase |-> "refused"]
            /\ UNCHANGED <<isGenerating, aiReasoning, awaitingGenerate>>
       ELSE IF ~apiKey
       THEN /\ error' = GenerateError
            /\ aiReasoning' = Undefined
            /\ event' = [name |-> "handleGenerateVectors", phase |-> "resumed",
                         data |-> Null, inputs |-> <<inputA, inputB>>]
            /\ UNCHANGED <<isGenerating, awaitingGenerate>>
       ELSE /\ isGenerating' = TRUE
            /\ error' = Null
            /\ aiReasoning' = Undefined
            /\ awaitingGenerate' = [pending |-> TRUE, conceptA |-> conceptA,
                                    conceptB |-> conceptB]
            /\ event' = [name |-> "handleGenerateVectors", phase |-> "awaiting"]
    /\ UNCHANGED <<vecA, vecB, result, inputA, inputB, conceptA, conceptB,
                   explanation, isExplaining, awaitingExplain, clickTimers,
                   mountTimer>>
    /\ UNCHANGED <<pc, i, dotProduct, sumSqA, sumSqB>>
    /\ UNCHANGED <<parseVars, rotVars, bridgeVars, chartVars>>

\* lines 420, 421: the input string once a response with vectors has come
InputAfterResponse(current, generated) == generated

\* lines 417-428: the bridge call resolves to data and handleGenerateVectors
\* runs on, generateContent having settled in one of the ways of outcomes.
\* join of a vectorA or vectorB that is no array throws a TypeError, which
\* ends the handler at that line
GenerateResumeFrom(outcomes) ==
    /\ awaitingGenerate.pending
    /\ \E outcome \in outcomes :
          LET data == GenerateResult(outcome, awaitingGenerate.conceptA,
                                     awaitingGenerate.conceptB)
          IN  /\ event' = [name |-> "handleGenerateVectors",
                           phase |-> "resumed", data |-> data,
                           inputs |-> IF data = Null THEN <<inputA, inputB>>
                                      ELSE <<>>]
              /\ IF data = Null
                 THEN /\ error' = GenerateError
                      /\ isGenerating' = FALSE
                      /\ UNCHANGED <<vecA, vecB, inputA, inputB, aiReasoning,
                                     clickTimers>>
                 ELSE IF data.vectorA.kind # "array"
                 THEN UNCHANGED <<vecA, vecB, inputA, inputB, error,
                                  aiReasoning, clickTimers, isGenerating>>
                 ELSE IF data.vectorB.kind # "array"
                 THEN /\ ParseEffect(
                            InputAfterResponse(inputA, Join(data.vectorA.items)),
                            inputB, error)
                      /\ UNCHANGED <<aiReasoning, clickTimers, isGenerating>>
                 ELSE /\ clickTimers < MaxTimers
                      /\ ParseEffect(
                            InputAfterResponse(inputA, Join(data.vectorA.items)),
                            InputAfterResponse(inputB, Join(data.vectorB.items)),
                            error)
                      /\ aiReasoning' = data.reasoning
                      /\ clickTimers' = clickTimers + 1
                      /\ isGenerating' = FALSE
    /\ awaitingGenerate' = NoRequest
    /\ UNCHANGED <<result, conceptA, conceptB, explanation, isExplaining,
                   awaitingExplain, mountTimer, interacted>>
    /\ UNCHANGED <<pc, i, dotProduct, sumSqA, sumSqB>>
    /\ UNCHANGED <<parseVars, rotVars, bridgeVars, chartVars>>

GenerateResume == GenerateResumeFrom(AppOutcomes)

\* a faulty variant of ExplanationAfterResponse: the response is dropped
ExplanationKept(current, text) == current

\* line 436: the explanation once the response has come
ExplanationAfterResponse(current, text) == text

\* lines 431-435: the user clicks "Ask AI to Explain" (shown with a result and
\* without an explanation, disabled while isExplaining, lines 694, 742, 745).
\* about is the result of the render the click came from, whose
\* cosineSimilarity the call is given.  Without a credential the bridge resolves with no
\* request made, and the handler runs on to its end in the same task
ExplainClick ==
    /\ result # Null
    /\ explanation = Null
    /\ ~isExplaining
    /\ interacted' = TRUE
    /\ LET about == result
       IN  IF ~apiKey
           THEN /\ explanation' = ExplanationAfterResponse(explanation,
                      [text |-> "Unable to connect to AI for explanation.",
                       about |-> about])
                /\ event' = [name |-> "handleExplain", phase |-> "resumed",
                             text |-> "Unable to connect to AI for explanation."]
                /\ UNCHANGED <<isExplaining, awaitingExplain>>
           ELSE /\ isExplaining' = TRUE
                /\ awaitingExplain' = [pending |-> TRUE, about |-> about]
                /\ event' = [name |-> "handleExplain", phase |-> "awaiting"]
                /\ UNCHANGED explanation
    /\ UNCHANGED <<vecA, vecB, result, inputA, inputB, conceptA, conceptB,
                   isGenerating, aiReasoning, error, awaitingGenerate,
                   clickTimers, mountTimer>>
    /\ UNCHANGED <<pc, i, dotProduct, sumSqA, sumSqB>>
    /\ UNCHANGED <<parseVars, rotVars, bridgeVars, chartVars>>

\* lines 435-437: the bridge call resolves and handleExplain runs on
ExplainResume ==
    /\ awaitingExplain.pending
    /\ \E outcome \in ExplainOutcomes :
          LET text == ExplainResult(outcome)
          IN  /\ explanation' = ExplanationAfterResponse(explanation,
                    [text |-> text, about |-> awaitingExplain.about])
              /\ event' = [name |-> "handleExplain", phase |-> "resumed",
                           text |-> text]
    /\ isExplaining' = FALSE
    /\ awaitingExplain' = NoRequest
    /\ UNCHANGED <<vecA, vecB, result, inputA, inputB, conceptA, conceptB,
                   isGenerating, aiReasoning, error, awaitingGenerate,
                   clickTimers, mountTimer, interacted>>
    /\ UNCHANGED <<pc, i, dotProduct, sumSqA, sumSqB>>
    /\ UNCHANGED <<parseVars, rotVars, bridgeVars, chartVars>>

\* line 449: Math.floor(Math.random() * 19) - 9
RandomSpan == 19
RandomShift == 9

\* line 449: getRandomVal() when Math.floor(Math.random() * 19) is k
getRandomVal(k) == (k - RandomShift) * Scale

\* line 448: the dimension drawn
RandomDims == {2, 3}

\* the values of Math.floor(Math.random() * 19) the runs draw: the least, the
\* middle one, the greatest
RandomDraws == {0, RandomShift, RandomSpan - 1}

\* the elements of an array of numbers
NumberItems(v) == [k \in 1..Len(v) |-> JNumber(v[k])]

\* lines 446-458: the user clicks "Randomize"; the render that follows runs
\* the parse effect
handleRandomize ==
    /\ clickTimers < MaxTimers
    /\ \E dim \in RandomDims :
          \E vA \in [1..dim -> {getRandomVal(k) : k \in RandomDraws}],
             vB \in [1..dim -> {getRandomVal(k) : k \in RandomDraws}] :
                /\ ParseEffect(Join(NumberItems(vA)), Join(NumberItems(vB)),
                               error)
                /\ event' = [name |-> "handleRandomize", vA |-> vA, vB |-> vB]
    /\ clickTimers' = clickTimers + 1
    /\ interacted' = TRUE
    /\ UNCHANGED <<result, conceptA, conceptB, isGenerating, aiReasoning,
                   explanation, isExplaining, awaitingGenerate, awaitingExplain,
                   mountTimer>>
    /\ UNCHANGED <<pc, i, dotProduct, sumSqA, sumSqB>>
    /\ UNCHANGED <<parseVars, rotVars, bridgeVars, chartVars>>

\* the finite numbers a generated vector holds in the runs that follow the
\* vectors written to the input fields: whole and fractional, of both signs,
\* zero, the least and the greatest of the format
WrittenNumbers ==
    {0 - MaxFinite, 0 - Scale, 0 - (Scale \div 2), 0, 1, Scale - 1,
     12 * Scale + 3, MaxFinite}

\* the vectors of at most n of these numbers
WrittenVectors(n) == UNION {[1..k -> WrittenNumbers] : k \in 0..n}

\* what vectorB holds in those runs: an array of no, one or two numbers
WrittenFieldValues ==
    {JArray(<<>>), JArray(<<JNumber(0 - Scale)>>),
     JArray(<<JNumber(Scale \div 2), JNumber(0 - 3 * Scale)>>)}

\* how generateContent settles in those runs: fulfilled with an object whose
\* vectorA is an array of finite numbers, or an array with a string in it
WrittenOutcomes ==
    {[kind |-> "fulfilled",
      text |-> JsonText("{..}", JObject(a, b, JString))] :
        a \in {JArray(NumberItems(v)) : v \in WrittenVectors(MaxLen)}
                \cup {JArray(<<JNumber(Scale), JString>>)},
        b \in WrittenFieldValues}

\* the response comes while no timer click is pending
WrittenResume ==
    /\ clickTimers = 0
    /\ GenerateResumeFrom(WrittenOutcomes)

\* the user clicks "Randomize" while no timer click is pending
WrittenRandomize ==
    /\ clickTimers = 0
    /\ handleRandomize

\* the handlers that write a vector to the input fields, up to the timer
\* click that follows the first write
WrittenNext ==
    ConceptChange \/ GenerateClick \/ WrittenResume \/ WrittenRandomize

AppNext ==
    \/ MountTimer \/ CalcClick \/ CalcTimer \/ InputAChange \/ InputBChange
    \/ ConceptChange \/ Clear \/ GenerateClick \/ GenerateResume
    \/ ExplainClick \/ ExplainResume

(***************************************************************************)
(* VectorChart (src/components/VectorChart.tsx, lines 26-272): what a      *)
(* render draws for the props vecA and vecB and the rotation state.        *)
(***************************************************************************)
\* longest vector handed to the chart
MaxDim == 4

\* the components of the chart's vectors: -2, 0, 8 and the largest finite number
ChartNumbers == {0 - 2 * Scale, 0, 8 * Scale, MaxFinite}

\* the rotations of the chart's renders: the pitch at its clamps and as
\* mounted, the yaw as mounted and some drags of one coordinate step away
ChartRotations ==
    {[x |-> p * RotUnits, y |-> InitialYaw * RotUnits + k * CoordStep] :
        p \in {0 - MaxPitch, InitialPitch, MaxPitch}, k \in (0 - 2)..3}

\* the chart's vectors: every pair of components, and the vectors of up to
\* MaxDim equal components
ChartVectors ==
    [1..2 -> ChartNumbers]
        \cup {[k \in 1..n |-> c] : n \in 0..MaxDim, c \in ChartNumbers}

\* -a
FNeg(a) == IF a = NaN THEN NaN ELSE 0 - a

\* a - b
FSub(a, b) == FAdd(a, FNeg(b))

\* Math.abs(a)
MathAbs(a) == IF a = NaN THEN NaN ELSE Abs(a)

\* a decimal literal n / d in the number format
Literal(n, d) == RoundDiv(n * Scale, d)

RECURSIVE MaxAbs(_, _)
\* Math.max(...v.map(Math.abs), floor)
MaxAbs(v, floor) ==
    IF v = <<>> THEN floor ELSE MathMax(MathAbs(v[1]), MaxAbs(Tail(v), floor))

\* Math.sin of t / RotUnits degrees, 0 <= t <= 180 * RotUnits, to the
\* precision of the number format
SinHalfTurn(t) ==
    LET p == t * (180 * RotUnits - t)
    IN  RoundDiv(4 * p * Scale, 40500 * RotUnits * RotUnits - p)

\* Math.sin(h * (Math.PI / 180)) for h in units of 1 / RotUnits degree
MathSin(h) ==
    LET t == h % (360 * RotUnits)
    IN  IF t <= 180 * RotUnits THEN SinHalfTurn(t)
        ELSE 0 - SinHalfTurn(t - 180 * RotUnits)

\* Math.cos(h * (Math.PI / 180)) for h in units of 1 / RotUnits degree
MathCos(h) == MathSin(h + 90 * RotUnits)

\* a faulty variant of Is2D: the length of vecB is not looked at
Is2DByVecA(a, b) == Len(a) = 2

\* line 41
Is2D(a, b) == Len(a) = 2 /\ Len(b) = 2

\* line 114
Is3D(a, b) == Len(a) = 3 /\ Len(b) = 3

\* lines 46-52: the scale of the 2D view
Scale2D(a, b) ==
    LET maxVal == FMul(MaxAbs(a \o b, Scale), Literal(12, 10))
    IN  FDiv((150 - 20) * Scale, maxVal)

\* lines 54-57: getCoord(x, y)
getCoord(x, y, scale) ==
    [x |-> FAdd(150 * Scale, FMul(x, scale)),
     y |-> FSub(150 * Scale, FMul(y, scale))]

\* lines 141-144: the scale of the 3D view
Scale3D(a, b) ==
    LET maxVal == FMul(MaxAbs(a \o b, 5 * Scale), Literal(15, 10))
    IN  FDiv((160 - 40) * Scale, maxVal)

\* lines 146-165: project(x, y, z) under the rotation rot
project(x, y, z, rot, scale) ==
    LET x1 == FSub(FMul(x, MathCos(rot.y)), FMul(z, MathSin(rot.y)))
        z1 == FAdd(FMul(x, MathSin(rot.y)), FMul(z, MathCos(rot.y)))
        y2 == FSub(FMul(y, MathCos(rot.x)), FMul(z1, MathSin(rot.x)))
        z2 == FAdd(FMul(y, MathSin(rot.x)), FMul(z1, MathCos(rot.x)))
    IN  [x |-> FAdd(160 * Scale, FMul(x1, scale)),
         y |-> FSub(160 * Scale, FMul(y2, scale)),
         z |-> z2]

\* line 263: x || 0
OrZero(x) == IF x = NaN \/ x = 0 THEN 0 ELSE x

\* lines 260-265: the rows of the fallback chart
FallbackData(a, b) ==
    [k \in 1..Len(a) |->
        [dimension |-> k, labelA |-> a[k], labelB |-> OrZero(At(b, k - 1)),
         fullMark |-> MathMax(MathAbs(a[k]), MathAbs(OrZero(At(b, k - 1))))]]

\* lines 38-272: what the component returns
Render(a, b, rot) ==
    IF Len(a) = 0 THEN [kind |-> "none"]
    ELSE IF Is2D(a, b)
    THEN LET scale == Scale2D(a, b)
         IN  [kind |-> "2d", scale |-> scale,
              origin |-> getCoord(0, 0, scale),
              endA |-> getCoord(At(a, 0), At(a, 1), scale),
              endB |-> getCoord(At(b, 0), At(b, 1), scale)]
    ELSE IF Is3D(a, b)
    THEN LET scale == Scale3D(a, b)
         IN  [kind |-> "3d", scale |-> scale,
              origin |-> project(0, 0, 0, rot, scale),
              endA |-> project(At(a, 0), At(a, 1), At(a, 2), rot, scale),
              endB |-> project(At(b, 0), At(b, 1), At(b, 2), rot, scale)]
    ELSE [kind |-> "fallback",
          chart |-> IF Len(a) > 3 THEN "radar" ELSE "bar",
          data |-> FallbackData(a, b)]

\* the component renders (lines 38-272)
ChartRender ==
    /\ view.kind = "unrendered"
    /\ view' = Render(vecA, vecB, rotation)
    /\ UNCHANGED <<calcVars, parseVars, rotVars, bridgeVars, appVars>>

ChartNext == ChartRender

(***************************************************************************)
(* The specifications: one per component, the other components at rest.   *)
(***************************************************************************)
\* the calculator called on any two vectors of at most MaxLen numbers
CalcInit ==
    /\ vecA \in Vectors(MaxLen)
    /\ vecB \in Vectors(MaxLen)
    /\ pc = "start"
    /\ i = 0
    /\ dotProduct = 0
    /\ sumSqA = 0
    /\ sumSqB = 0
    /\ result = Null
    /\ input = <<>>
    /\ ppc = "start"
    /\ parsed = <<>>
    /\ rotation = [x |-> InitialPitch * RotUnits, y |-> InitialYaw * RotUnits]
    /\ isDragging = FALSE
    /\ lastMousePos = [x |-> 0, y |-> 0]
    /\ bpc = "idle"
    /\ bop = "none"
    /\ apiKey = FALSE
    /\ topics = <<"cat", "dog">>
    /\ response = [kind |-> "none"]
    /\ returned = Undefined
    /\ inputA = DefaultInputA
    /\ inputB = DefaultInputB
    /\ conceptA = ""
    /\ conceptB = ""
    /\ isGenerating = FALSE
    /\ aiReasoning = Undefined
    /\ error = Null
    /\ explanation = Null
    /\ isExplaining = FALSE
    /\ awaitingGenerate = NoRequest
    /\ awaitingExplain = NoRequest
    /\ clickTimers = 0
    /\ mountTimer = TRUE
    /\ interacted = FALSE
    /\ event = [name |-> "mount"]
    /\ view = [kind |-> "unrendered"]

\* the parser called on any string of at most MaxStr characters
ParseInit ==
    /\ vecA = <<>>
    /\ vecB = <<>>
    /\ pc = "start"
    /\ i = 0
    /\ dotProduct = 0
    /\ sumSqA = 0
    /\ sumSqB = 0
    /\ result = Null
    /\ input \in Strings(MaxStr)
    /\ ppc = "start"
    /\ parsed = <<>>
    /\ rotation = [x |-> InitialPitch * RotUnits, y |-> InitialYaw * RotUnits]
    /\ isDragging = FALSE
    /\ lastMousePos = [x |-> 0, y |-> 0]
    /\ bpc = "idle"
    /\ bop = "none"
    /\ apiKey = FALSE
    /\ topics = <<"cat", "dog">>
    /\ response = [kind |-> "none"]
    /\ returned = Undefined
    /\ inputA = DefaultInputA
    /\ inputB = DefaultInputB
    /\ conceptA = ""
    /\ conceptB = ""
    /\ isGenerating = FALSE
    /\ aiReasoning = Undefined
    /\ error = Null
    /\ explanation = Null
    /\ isExplaining = FALSE
    /\ awaitingGenerate = NoRequest
    /\ awaitingExplain = NoRequest
    /\ clickTimers = 0
    /\ mountTimer = TRUE
    /\ interacted = FALSE
    /\ event = [name |-> "mount"]
    /\ view = [kind |-> "unrendered"]

\* the 3D view as mounted (lines 33-35)
RotInit ==
    /\ vecA = <<>>
    /\ vecB = <<>>
    /\ pc = "start"
    /\ i = 0
    /\ dotProduct = 0
    /\ sumSqA = 0
    /\ sumSqB = 0
    /\ result = Null
    /\ input = <<>>
    /\ ppc = "start"
    /\ parsed = <<>>
    /\ rotation = [x |-> InitialPitch * RotUnits, y |-> InitialYaw * RotUnits]
    /\ isDragging = FALSE
    /\ lastMousePos = [x |-> 0, y |-> 0]
    /\ bpc = "idle"
    /\ bop = "none"
    /\ apiKey = FALSE
    /\ topics = <<"cat", "dog">>
    /\ response = [kind |-> "none"]
    /\ returned = Undefined
    /\ inputA = DefaultInputA
    /\ inputB = DefaultInputB
    /\ conceptA = ""
    /\ conceptB = ""
    /\ isGenerating = FALSE
    /\ aiReasoning = Undefined
    /\ error = Null
    /\ explanation = Null
    /\ isExplaining = FALSE
    /\ awaitingGenerate = NoRequest
    /\ awaitingExplain = NoRequest
    /\ clickTimers = 0
    /\ mountTimer = TRUE
    /\ interacted = FALSE
    /\ event = [name |-> "mount"]
    /\ view = [kind |-> "unrendered"]

\* the bridge with or without a credential in the environment
BridgeInit ==
    /\ vecA = <<>>
    /\ vecB = <<>>
    /\ pc = "start"
    /\ i = 0
    /\ dotProduct = 0
    /\ sumSqA = 0
    /\ sumSqB = 0
    /\ result = Null
    /\ input = <<>>
    /\ ppc = "start"
    /\ parsed = <<>>
    /\ rotation = [x |-> InitialPitch * RotUnits, y |-> InitialYaw * RotUnits]
    /\ isDragging = FALSE
    /\ lastMousePos = [x |-> 0, y |-> 0]
    /\ bpc = "idle"
    /\ bop = "none"
    /\ apiKey \in BOOLEAN
    /\ topics = <<"cat", "dog">>
    /\ response = [kind |-> "none"]
    /\ returned = Undefined
    /\ inputA = DefaultInputA
    /\ inputB = DefaultInputB
    /\ conceptA = ""
    /\ conceptB = ""
    /\ isGenerating = FALSE
    /\ aiReasoning = Undefined
    /\ error = Null
    /\ explanation = Null
    /\ isExplaining = FALSE
    /\ awaitingGenerate = NoRequest
    /\ awaitingExplain = NoRequest
    /\ clickTimers = 0
    /\ mountTimer = TRUE
    /\ interacted = FALSE
    /\ event = [name |-> "mount"]
    /\ view = [kind |-> "unrendered"]

\* App once mounted (lines 341-405): the first render and its two effects have
\* run, with or without a credential in the environment
AppInit ==
    /\ vecA = ParseVectorString(DefaultInputA)
    /\ vecB = ParseVectorString(DefaultInputB)
    /\ pc = "start"
    /\ i = 0
    /\ dotProduct = 0
    /\ sumSqA = 0
    /\ sumSqB = 0
    /\ result = Null
    /\ input = <<>>
    /\ ppc = "start"
    /\ parsed = <<>>
    /\ rotation = [x |-> InitialPitch * RotUnits, y |-> InitialYaw * RotUnits]
    /\ isDragging = FALSE
    /\ lastMousePos = [x |-> 0, y |-> 0]
    /\ bpc = "idle"
    /\ bop = "none"
    /\ apiKey \in BOOLEAN
    /\ topics = <<"cat", "dog">>
    /\ response = [kind |-> "none"]
    /\ returned = Undefined
    /\ inputA = DefaultInputA
    /\ inputB = DefaultInputB
    /\ conceptA = ""
    /\ conceptB = ""
    /\ isGenerating = FALSE
    /\ aiReasoning = Undefined
    /\ error = Null
    /\ explanation = Null
    /\ isExplaining = FALSE
    /\ awaitingGenerate = NoRequest
    /\ awaitingExplain = NoRequest
    /\ clickTimers = 0
    /\ mountTimer = TRUE
    /\ interacted = FALSE
    /\ event = [name |-> "mount"]
    /\ view = [kind |-> "unrendered"]

\* the chart about to render any two of its vectors under any of its rotations
\* (lines 26-36)
ChartInit ==
    /\ vecA \in ChartVectors
    /\ vecB \in ChartVectors
    /\ pc = "start"
    /\ i = 0
    /\ dotProduct = 0
    /\ sumSqA = 0
    /\ sumSqB = 0
    /\ result = Null
    /\ input = <<>>
    /\ ppc = "start"
    /\ parsed = <<>>
    /\ rotation \in ChartRotations
    /\ isDragging = FALSE
    /\ lastMousePos = [x |-> 0, y |-> 0]
    /\ bpc = "idle"
    /\ bop = "none"
    /\ apiKey = FALSE
    /\ topics = <<"cat", "dog">>
    /\ response = [kind |-> "none"]
    /\ returned = Undefined
    /\ inputA = DefaultInputA
    /\ inputB = DefaultInputB
    /\ conceptA = ""
    /\ conceptB = ""
    /\ isGenerating = FALSE
    /\ aiReasoning = Undefined
    /\ error = Null
    /\ explanation = Null
    /\ isExplaining = FALSE
    /\ awaitingGenerate = NoRequest
    /\ awaitingExplain = NoRequest
    /\ clickTimers = 0
    /\ mountTimer = TRUE
    /\ interacted = FALSE
    /\ event = [name |-> "mount"]
    /\ view = [kind |-> "unrendered"]

SpecCalc == CalcInit /\ [][CalcNext]_vars

SpecParse == ParseInit /\ [][ParseNext]_vars

SpecRot == RotInit /\ [][RotNext]_vars

SpecBridge == BridgeInit /\ [][BridgeNext]_vars

SpecApp == AppInit /\ [][AppNext]_vars

SpecChart == ChartInit /\ [][ChartNext]_vars

\* App with the handlers that write generated vectors to the input fields, up
\* to the first write
SpecWritten == AppInit /\ [][WrittenNext]_vars

(***************************************************************************)
(* Properties of calculateCosineSimilarity, under SpecCalc.                *)
(***************************************************************************)
Returned == pc = "done" /\ result # Null

AllZero(v) == \A k \in 1..Len(v) : v[k] = 0

AllFinite(v) == \A k \in 1..Len(v) : IsFinite(v[k])

\* every component a whole number (a multiple of 1.0)
AllWhole(v) == \A k \in 1..Len(v) : IsFinite(v[k]) /\ v[k] % Scale = 0

RECURSIVE SumProducts(_, _, _)
\* a[1] * b[1] + ... + a[n] * b[n] in the number format, added left to right
SumProducts(a, b, n) ==
    IF n = 0 THEN 0 ELSE FAdd(SumProducts(a, b, n - 1), FMul(a[n], b[n]))

RECURSIVE ExactSum(_, _, _)
\* a[1] * b[1] + ... + a[n] * b[n] over the integers, in units of 1 / Scale^2
ExactSum(a, b, n) ==
    IF n = 0 THEN 0 ELSE ExactSum(a, b, n - 1) + a[n] * b[n]

\* m (in units of 1 / Scale) is the number nearest to the square root of q
\* (in units of 1 / Scale^2)
NearestRoot(m, q) ==
    /\ m >= 0
    /\ (m = 0 \/ (2 * m - 1) * (2 * m - 1) <= 4 * q)
    /\ 4 * q <= (2 * m + 1) * (2 * m + 1)

\* C1: the calculator returns null if and only if vecA is empty, vecB is
\* empty or their lengths differ; every pair of non-empty vectors of equal
\* length gets a result.
C1_NullIffEmptyOrMismatch ==
    pc = "done" =>
        ((result = Null) <=>
            (Len(vecA) = 0 \/ Len(vecB) = 0 \/ Len(vecA) # Len(vecB)))

\* C1 witness: null returned for two non-empty vectors of different lengths
C1_Witness == pc = "done" /\ result = Null /\ Len(vecA) = 1 /\ Len(vecB) = 2

\* C2: when a vector is all zeros, or a magnitude comes out as zero, the
\* result has cosineSimilarity 0 and angleDegrees 0 (not NaN), and its
\* dotProduct, magnitudeA, magnitudeB and dimensions are the computed values.
C2_ZeroMagnitudeGivesZero ==
    (/\ Returned
     /\ \/ AllZero(vecA) \/ AllZero(vecB)
        \/ result.magnitudeA = 0 \/ result.magnitudeB = 0)
    => /\ result.cosineSimilarity = 0
       /\ result.angleDegrees = 0
       /\ result.dotProduct = dotProduct
       /\ result.magnitudeA = MathSqrt(sumSqA)
       /\ result.magnitudeB = MathSqrt(sumSqB)
       /\ result.dimensions = Len(vecA)

\* C2 witness: the result for [0, 0] and [1, 3]
C2_Witness ==
    /\ Returned
    /\ vecA = <<0, 0>>
    /\ vecB = <<Scale, 3 * Scale>>
    /\ result.cosineSimilarity = 0
    /\ result.magnitudeB > 0

\* C3: for finite-valued vectors of equal non-zero length the cosineSimilarity
\* of the result lies within [-1, 1].
C3_CosineWithinUnitRange ==
    (Returned /\ AllFinite(vecA) /\ AllFinite(vecB))
    => (0 - Scale <= result.cosineSimilarity /\ result.cosineSimilarity <= Scale)

\* C4: for every non-null result angleDegrees lies within [0, 180].
C4_AngleWithinHalfTurn ==
    Returned => (0 <= result.angleDegrees /\ result.angleDegrees <= 180 * Scale)

\* C5: dotProduct is the sum of a[i] * b[i], magnitudeA and magnitudeB the
\* square roots of the sums of squares, dimensions the common length; over
\* whole numbers without overflow the sums are the exact ones and each
\* magnitude is the number nearest to the exact root; [3, 0] and [0, 4] give
\* dotProduct 0, magnitudeA 3, magnitudeB 4.
C5_SumsAndMagnitudes ==
    Returned =>
        /\ result.dotProduct = SumProducts(vecA, vecB, Len(vecA))
        /\ result.magnitudeA = MathSqrt(SumProducts(vecA, vecA, Len(vecA)))
        /\ result.magnitudeB = MathSqrt(SumProducts(vecB, vecB, Len(vecB)))
        /\ result.dimensions = Len(vecA)
        /\ result.dimensions = Len(vecB)
        /\ (AllWhole(vecA) /\ AllWhole(vecB) /\ IsFinite(result.dotProduct))
            => result.dotProduct * Scale = ExactSum(vecA, vecB, Len(vecA))
        /\ (AllWhole(vecA) /\ IsFinite(result.magnitudeA))
            => NearestRoot(result.magnitudeA, ExactSum(vecA, vecA, Len(vecA)))
        /\ (AllWhole(vecB) /\ IsFinite(result.magnitudeB))
            => NearestRoot(result.magnitudeB, ExactSum(vecB, vecB, Len(vecB)))
        /\ (vecA = <<3 * Scale, 0>> /\ vecB = <<0, 4 * Scale>>)
            => /\ result.dotProduct = 0
               /\ result.magnitudeA = 3 * Scale
               /\ result.magnitudeB = 4 * Scale

\* C5 witness: the result for [3, 0] and [0, 4]
C5_Witness ==
    /\ Returned
    /\ vecA = <<3 * Scale, 0>>
    /\ vecB = <<0, 4 * Scale>>
    /\ result.magnitudeA = 3 * Scale
    /\ result.dimensions = 2

(***************************************************************************)
(* Properties of parseVectorString, under SpecParse.                       *)
(***************************************************************************)
\* a whitespace character or a comma
SeparatorChar(c) == c \in {" ", ","}

\* the positions where a maximal run of non-separator characters starts
RunStarts(s) ==
    {k \in 1..Len(s) :
        ~SeparatorChar(s[k]) /\ (k = 1 \/ SeparatorChar(s[k - 1]))}

\* the last position of the run of non-separator characters that starts at k
RunEnd(s, k) ==
    CHOOSE j \in k..Len(s) :
        /\ \A m \in k..j : ~SeparatorChar(s[m])
        /\ (j = Len(s) \/ SeparatorChar(s[j + 1]))

RECURSIVE RunsFrom(_, _)
\* the non-empty tokens of s from position k on, left to right
RunsFrom(s, k) ==
    IF k > Len(s) THEN <<>>
    ELSE IF SeparatorChar(s[k]) THEN RunsFrom(s, k + 1)
    ELSE <<SubSeq(s, k, RunEnd(s, k))>> \o RunsFrom(s, RunEnd(s, k) + 1)

Converts(n) == n # NaN

\* the numbers of the non-empty tokens that convert, left to right
ConvertedRuns(s) ==
    LET runs == RunsFrom(s, 1)
    IN  SelectSeq([k \in 1..Len(runs) |-> ParseFloat(runs[k])], Converts)

\* t is, in its entirety, a decimal number: an optional sign, then digits with
\* at most one decimal point among them
WhollyDecimal(t) ==
    LET u == IF t # <<>> /\ t[1] \in {"-", "+"} THEN Tail(t) ELSE t
    IN  /\ \E k \in 1..Len(u) : IsDigit(u[k])
        /\ \A k \in 1..Len(u) : IsDigit(u[k]) \/ u[k] = "."
        /\ Cardinality({k \in 1..Len(u) : u[k] = "."}) <= 1

\* t starts with no number: after an optional sign comes neither a digit nor a
\* decimal point followed by a digit
StartsNoNumber(t) ==
    LET u == IF t # <<>> /\ t[1] \in {"-", "+"} THEN Tail(t) ELSE t
    IN  ~ \/ (Len(u) >= 1 /\ IsDigit(u[1]))
          \/ (Len(u) >= 2 /\ u[1] = "." /\ IsDigit(u[2]))

\* C6: the output is the numbers of the tokens between maximal runs of
\* whitespace and commas, without the tokens that fail to convert, in the
\* order of the tokens, and no longer than the number of non-empty tokens;
\* "2, 1" gives [2, 1], "1 2  3" gives [1, 2, 3], "a, 2, b" gives [2].
C6_TokensInOrder ==
    /\ ppc = "done" =>
          /\ parsed = ConvertedRuns(input)
          /\ Len(parsed) <= Cardinality(RunStarts(input))
    /\ ParseVectorString(<<"2", ",", " ", "1">>) = <<2 * Scale, Scale>>
    /\ ParseVectorString(<<"1", " ", "2", " ", " ", "3">>)
           = <<Scale, 2 * Scale, 3 * Scale>>
    /\ ParseVectorString(<<"a", ",", " ", "2", ",", " ", "b">>) = <<2 * Scale>>

\* C6 witness: "2, 1" parsed to [2, 1]
C6_Witness ==
    /\ ppc = "done"
    /\ input = <<"2", ",", " ", "1">>
    /\ parsed = <<2 * Scale, Scale>>

\* C7: only the tokens that are decimal numbers in their entirety produce
\* output elements; every other token is dropped.
C7_OnlyWhollyDecimalTokens ==
    ppc = "done" =>
        LET runs == RunsFrom(input, 1)
        IN  Len(parsed) = Cardinality({k \in 1..Len(runs) : WhollyDecimal(runs[k])})

PitchWithinClamp ==
    /\ 0 - MaxPitch * RotUnits <= rotation.x
    /\ rotation.x <= MaxPitch * RotUnits

\* a step that turns the view adds the whole pointer displacement, times 0.5,
\* to the yaw
YawStepUnclamped ==
    rotation' # rotation =>
        rotation'.y - rotation.y = lastMousePos'.x - lastMousePos.x

\* C9: after any sequence of mouse-down, mouse-move, mouse-up and mouse-leave
\* events from the initial rotation (pitch -20, yaw 45) the pitch is within
\* [-90, 90], while the yaw is never clamped.
C9_PitchClampedYawFree == [](PitchWithinClamp) /\ [][YawStepUnclamped]_vars

\* C9 witness: a drag has pushed the pitch to its upper clamp and the yaw
\* beyond 180 degrees
C9_Witness ==
    /\ isDragging
    /\ rotation.x = MaxPitch * RotUnits
    /\ rotation.y > 180 * RotUnits

(***************************************************************************)
(* Properties of the AI bridge, under SpecBridge.                          *)
(***************************************************************************)
\* v is a sequence of numbers
NumericSequence(v) ==
    /\ v.kind = "array"
    /\ \A k \in 1..Len(v.items) : v.items[k].kind = "number"

\* C10: generateVectorsFromConcepts resolves to null or to an object whose
\* vectorA and vectorB are numeric sequences, and explainSimilarityResult
\* resolves to a non-empty text.
C10_BridgeResultUsable ==
    bpc = "resolved" =>
        /\ bop = "generate" =>
              \/ returned = Null
              \/ /\ NumericSequence(returned.vectorA)
                 /\ NumericSequence(returned.vectorB)
        /\ bop = "explain" => (returned.kind = "string" /\ returned.raw # "")

(***************************************************************************)
(* Properties of App, under SpecApp.                                       *)
(***************************************************************************)
\* the last step was a run of handleCalculate
CalculateRan == event.name = "handleCalculate"

\* the last step was the rest of handleGenerateVectors, after its await
GenerateResumed == event.name = "handleGenerateVectors" /\ event.phase = "resumed"

\* the last step was the rest of handleExplain, after its await
ExplainResumed == event.name = "handleExplain" /\ event.phase = "resumed"

\* C11: a run of handleCalculate on vectors of different lengths, or on two
\* empty vectors, sets an error, sets result to null and does not call
\* calculateCosineSimilarity; a run on vectors of equal non-zero length calls
\* it, stores what it returns and clears the error.
C11_CalculateGuardsItsInputs ==
    CalculateRan =>
        IF \/ Len(event.vecA) # Len(event.vecB)
           \/ (Len(event.vecA) = 0 /\ Len(event.vecB) = 0)
        THEN /\ error # Null
             /\ result = Null
             /\ ~event.called
        ELSE /\ event.called
             /\ result = calculateCosineSimilarity(event.vecA, event.vecB)
             /\ error = Null

\* C11 witness: a click on calc-btn with one number against two
C11_Witness ==
    /\ CalculateRan
    /\ event.by = "user"
    /\ Len(event.vecA) = 1
    /\ Len(event.vecB) = 2
    /\ error = MismatchError(event.vecA, event.vecB)
    /\ result = Null

\* C12: once the bridge call of handleGenerateVectors has resolved, with
\* vectors, with null or with a malformed payload, isGenerating is false; when
\* it resolved to null, error is the generic failure message and inputA and
\* inputB are what they were.
C12_GenerateEndsNotGenerating ==
    GenerateResumed =>
        /\ ~isGenerating
        /\ event.data = Null =>
              /\ error = GenerateError
              /\ <<inputA, inputB>> = event.inputs

\* C13: a response that resolves overwrites the fields it is for, whatever
\* has happened since the request: the text of an explain response becomes
\* the explanation, the vectors and the reasoning of a generate response become
\* inputA, inputB and aiReasoning.
C13_ResponsesOverwrite ==
    /\ ExplainResumed =>
          /\ explanation # Null
          /\ explanation.text = event.text
    /\ (/\ GenerateResumed
        /\ event.data # Null
        /\ event.data.vectorA.kind = "array"
        /\ event.data.vectorB.kind = "array")
       => /\ inputA = Join(event.data.vectorA.items)
          /\ inputB = Join(event.data.vectorB.items)
          /\ aiReasoning = event.data.reasoning

\* C13 witness: an explain response has been stored although the result it
\* was asked for has been replaced since
C13_Witness ==
    /\ ExplainResumed
    /\ explanation # Null
    /\ explanation.text = "It depends"
    /\ explanation.about # result

\* C17: when the timer of the mount effect fires before any interaction,
\* result becomes the result for [2, 1] and [1, 3] and error stays null.
C17_MountCalculates ==
    (CalculateRan /\ event.by = "mount" /\ ~interacted) =>
        /\ result # Null
        /\ result = calculateCosineSimilarity(<<2 * Scale, Scale>>,
                                               <<Scale, 3 * Scale>>)
        /\ error = Null

\* C19: an explanation stored while a result is displayed was asked for that
\* result.
C19_ExplanationMatchesResult ==
    (explanation # Null /\ result # Null) => explanation.about = result

\* C20: after every run of handleCalculate exactly one of result and error is
\* non-null.
C20_ResultOrError ==
    CalculateRan => ((result # Null) # (error # Null))

\* C20 witness: a timer's click on calc-btn has stored a result
C20_Witness ==
    /\ CalculateRan
    /\ event.by = "timer"
    /\ result # Null
    /\ error = Null

(***************************************************************************)
(* Properties of the 3D rotation state by event, under SpecRot.            *)
(***************************************************************************)
\* the step turns the view by what a dragging move from the last recorded
\* pointer position to the new one adds: 0.5 degree per pixel, deltaX to the
\* yaw, deltaY to the pitch before its clamp
DraggingMoveStep ==
    LET deltaX == lastMousePos'.x - lastMousePos.x
        deltaY == lastMousePos'.y - lastMousePos.y
        pitch == 2 * rotation.x + RotUnits * deltaY
    IN  /\ isDragging
        /\ 2 * (rotation'.y - rotation.y) = RotUnits * deltaX
        /\ 2 * rotation'.x =
              IF pitch > 2 * MaxPitch * RotUnits THEN 2 * MaxPitch * RotUnits
              ELSE IF pitch < 0 - 2 * MaxPitch * RotUnits
                   THEN 0 - 2 * MaxPitch * RotUnits
              ELSE pitch

RotationByDraggingOnly ==
    /\ (MouseDown \/ MouseUp \/ MouseLeave) => rotation' = rotation
    /\ ~isDragging => rotation' = rotation
    /\ rotation' # rotation => DraggingMoveStep
    /\ (MouseMove /\ isDragging) => DraggingMoveStep

\* C18: the rotation changes only on a mouse-move while dragging: a move while
\* not dragging and every mouse-down, mouse-up and mouse-leave leave pitch and
\* yaw unchanged, and a dragging move adds 0.5 times the displacement since the
\* last recorded position, deltaX to the yaw and deltaY to the pitch before
\* the clamp.
C18_RotationByDraggingOnly == [][RotationByDraggingOnly]_vars

\* C18 witness: a drag of one coordinate step along both axes has turned the
\* view by half of it
C18_Witness ==
    /\ isDragging
    /\ rotation.x = InitialPitch * RotUnits + CoordStep
    /\ rotation.y = InitialYaw * RotUnits + CoordStep
    /\ lastMousePos = [x |-> CoordStep, y |-> CoordStep]

(***************************************************************************)
(* Properties of VectorChart's render, under SpecChart.                    *)
(***************************************************************************)
\* the largest of the absolute values of the components of v, and of floor
LargestMagnitude(v, floor) ==
    CHOOSE m \in {floor} \cup {Abs(v[k]) : k \in 1..Len(v)} :
        /\ m >= floor
        /\ \A k \in 1..Len(v) : m >= Abs(v[k])

\* the point is inside the square canvas of the given side
InsideCanvas(point, side) ==
    /\ 0 <= point.x /\ point.x <= side * Scale
    /\ 0 <= point.y /\ point.y <= side * Scale

\* C14: in the 2D view the origin is drawn at (150, 150) and a point (x, y) at
\* (150 + x * scale, 150 - y * scale), with scale = 130 / (1.2 * max(|a0|,
\* |a1|, |b0|, |b1|, 1)); for finite components the scale is finite, positive
\* and at most 130 / 1.2, and both endpoints are inside the 300 x 300 canvas.
C14_TwoDimensionalView ==
    (view.kind = "2d" /\ AllFinite(vecA) /\ AllFinite(vecB)) =>
        /\ view.origin = [x |-> 150 * Scale, y |-> 150 * Scale]
        /\ view.scale =
              FDiv(130 * Scale,
                   FMul(LargestMagnitude(vecA \o vecB, Scale), Literal(12, 10)))
        /\ view.endA = [x |-> FAdd(150 * Scale, FMul(vecA[1], view.scale)),
                        y |-> FSub(150 * Scale, FMul(vecA[2], view.scale))]
        /\ view.endB = [x |-> FAdd(150 * Scale, FMul(vecB[1], view.scale)),
                        y |-> FSub(150 * Scale, FMul(vecB[2], view.scale))]
        /\ IsFinite(view.scale)
        /\ view.scale > 0
        /\ view.scale <= FDiv(130 * Scale, Literal(12, 10))
        /\ InsideCanvas(view.endA, 300)
        /\ InsideCanvas(view.endB, 300)

\* C15: in the 3D view project(x, y, z) turns the point by the yaw about the Y
\* axis, then by the pitch about the X axis, drops the depth and maps the rest
\* to (160 + x1 * scale, 160 - y2 * scale), with scale = 120 / (1.5 *
\* max(all |components|, 5)); the origin is drawn at the centre under every
\* rotation, and for finite components the scale is finite and positive.
C15_ThreeDimensionalView ==
    (view.kind = "3d" /\ AllFinite(vecA) /\ AllFinite(vecB)) =>
        LET x1 == FSub(FMul(vecA[1], MathCos(rotation.y)),
                       FMul(vecA[3], MathSin(rotation.y)))
            z1 == FAdd(FMul(vecA[1], MathSin(rotation.y)),
                       FMul(vecA[3], MathCos(rotation.y)))
            y2 == FSub(FMul(vecA[2], MathCos(rotation.x)),
                       FMul(z1, MathSin(rotation.x)))
        IN  /\ view.origin.x = 160 * Scale
            /\ view.origin.y = 160 * Scale
            /\ view.scale =
                  FDiv(120 * Scale,
                       FMul(LargestMagnitude(vecA \o vecB, 5 * Scale),
                            Literal(15, 10)))
            /\ view.endA.x = FAdd(160 * Scale, FMul(x1, view.scale))
            /\ view.endA.y = FSub(160 * Scale, FMul(y2, view.scale))
            /\ IsFinite(view.scale)
            /\ view.scale > 0

\* C16: nothing is drawn when vecA is empty; the 2D view is drawn exactly when
\* both vectors have 2 components, the 3D view exactly when both have 3, and
\* the fallback chart otherwise, with one row per component of vecA and a 0
\* where vecB has no such component.
C16_ViewChosenByLengths ==
    view.kind # "unrendered" =>
        /\ (view.kind = "none") <=> (Len(vecA) = 0)
        /\ (view.kind = "2d") <=> (Len(vecA) = 2 /\ Len(vecB) = 2)
        /\ (view.kind = "3d") <=> (Len(vecA) = 3 /\ Len(vecB) = 3)
        /\ (view.kind = "fallback") <=>
              /\ Len(vecA) # 0
              /\ ~(Len(vecA) = 2 /\ Len(vecB) = 2)
              /\ ~(Len(vecA) = 3 /\ Len(vecB) = 3)
        /\ view.kind = "fallback" =>
              /\ Len(view.data) = Len(vecA)
              /\ \A k \in 1..Len(vecA) :
                    /\ view.data[k].labelA = vecA[k]
                    /\ view.data[k].labelB =
                          IF k <= Len(vecB) THEN vecB[k] ELSE 0

\* C16 witness: the fallback chart of a vecA of four components against a
\* vecB of one
C16_Witness ==
    /\ view.kind = "fallback"
    /\ Len(vecA) = 4
    /\ Len(vecB) = 1
    /\ view.data[4].labelA = vecA[4]
    /\ view.data[4].labelB = 0

\* the last handler run was handleRandomize
Randomized == event.name = "handleRandomize"

\* the last handler run was handleGenerateVectors, which reached line 420
\* with a vectorA that is an array
WroteVectorA ==
    /\ GenerateResumed
    /\ event.data # Null
    /\ event.data.vectorA.kind = "array"

\* and line 421 with a vectorB that is an array
WroteVectorB == WroteVectorA /\ event.data.vectorB.kind = "array"

\* every element of an array is a finite number
FiniteNumbers(items) ==
    \A k \in 1..Len(items) : items[k].kind = "number" /\ IsFinite(items[k].v)

\* the numbers of such an array
ValuesOf(items) == [k \in 1..Len(items) |-> items[k].v]

\* C21: writing a vector to an input field and parsing it back is lossless.
\* For every sequence v of finite numbers, parseVectorString(v.join(', '))
\* equals v: the same length, the same values, the same order.  So the
\* vectors handleRandomize draws reach vecA and vecB, which handleCalculate
\* is given, unchanged and with equal lengths, and so does each array of
\* finite numbers that a response of the AI bridge holds: vectors of equal
\* lengths stay of equal lengths.
C21_WrittenVectorsReadBack ==
    /\ Randomized =>
          /\ inputA = Join(NumberItems(event.vA))
          /\ inputB = Join(NumberItems(event.vB))
          /\ vecA = event.vA
          /\ vecB = event.vB
          /\ Len(vecA) = Len(vecB)
    /\ (WroteVectorA /\ FiniteNumbers(event.data.vectorA.items)) =>
          /\ inputA = Join(event.data.vectorA.items)
          /\ vecA = ValuesOf(event.data.vectorA.items)
    /\ (WroteVectorB /\ FiniteNumbers(event.data.vectorB.items)) =>
          /\ inputB = Join(event.data.vectorB.items)
          /\ vecB = ValuesOf(event.data.vectorB.items)
    /\ (/\ WroteVectorB
        /\ FiniteNumbers(event.data.vectorA.items)
        /\ FiniteNumbers(event.data.vectorB.items)
        /\ Len(event.data.vectorA.items) = Len(event.data.vectorB.items))
       => Len(vecA) = Len(vecB)

\* C21 witness: a response whose vectors hold a negative fraction, a number
\* of three digits, a fraction and a negative whole number has been written
\* to the input fields and read back
C21_Witness ==
    /\ WroteVectorB
    /\ ValuesOf(event.data.vectorA.items) = <<0 - (Scale \div 2), 12 * Scale + 3>>
    /\ ValuesOf(event.data.vectorB.items) = <<Scale \div 2, 0 - 3 * Scale>>
    /\ inputA = Join(event.data.vectorA.items)
    /\ \E k \in 1..Len(inputA) : inputA[k] = "."
    /\ inputA[1] = "-"
    /\ vecA = <<0 - (Scale \div 2), 12 * Scale + 3>>
    /\ vecB = <<Scale \div 2, 0 - 3 * Scale>>

====
